---- MODULE Spec2Model ----
(***************************************************************************)
(* Model of the "Trends Collide" spurious-regression dashboard             *)
(* (src/app.py): the risk score compute_risk_score and the flow of main    *)
(* from data source selection through compute_ols_metrics to the score.    *)
(*                                                                         *)
(* Floats are modelled as exact rationals [n |-> numerator, d |-> denom]   *)
(* with d > 0, kept in lowest terms; NaN is the quotient 0/0, the value    *)
(* numpy produces for 0.0/0.0.  Every comparison with NaN is FALSE, as in  *)
(* IEEE-754, and every arithmetic operation on NaN gives NaN.              *)
(***************************************************************************)
EXTENDS Integers, Sequences, FiniteSets, TLC

VARIABLES pc, use_demo, file_y, file_x, y, x, model, dw, r2, pval, score, error,
          shown, disk, cache, args, ret

\* pc .. error are the widgets and locals of main in src/app.py and shown is
\* what the run has put on the page; disk and cache are the data file and
\* the st.cache_data store of the panel apps; args and ret are the arguments
\* and the result of a function called on its own
vars == <<pc, use_demo, file_y, file_x, y, x, model, dw, r2, pval, score, error,
          shown, disk, cache, args, ret>>

\* the state outside main of src/app.py
others == <<disk, cache, args, ret>>

(* ------------------------------ bounds -------------------------------- *)

\* the score inputs are drawn from the grid of multiples of 1/Den
Den == 10
\* how far (in grid steps) the drawn inputs overshoot their nominal range
Over == 3

(* ----------------------------- rationals ------------------------------ *)

Abs(k) == IF k < 0 THEN -k ELSE k

RECURSIVE GCD(_, _)
GCD(a, b) == IF b = 0 THEN a ELSE GCD(b, a % b)

NaN == [n |-> 0, d |-> 0]

IsNaN(a) == a.d = 0

\* the rational p/q in lowest terms with a positive denominator; 0/0 is NaN
Rat(p, q) ==
    IF q = 0 THEN NaN
    ELSE LET g == GCD(Abs(p), Abs(q))
             s == IF q < 0 THEN -1 ELSE 1
         IN  [n |-> (s * p) \div g, d |-> (s * q) \div g]

Num(k) == Rat(k, 1)

Add(a, b) ==
    IF IsNaN(a) \/ IsNaN(b) THEN NaN
    ELSE LET g == GCD(a.d, b.d)
         IN  Rat(a.n * (b.d \div g) + b.n * (a.d \div g), (a.d \div g) * b.d)
Neg(a)    == IF IsNaN(a) THEN NaN ELSE [n |-> -a.n, d |-> a.d]
Sub(a, b) == Add(a, Neg(b))
Mul(a, b) == IF IsNaN(a) \/ IsNaN(b) THEN NaN ELSE Rat(a.n * b.n, a.d * b.d)
Div(a, b) == IF IsNaN(a) \/ IsNaN(b) THEN NaN ELSE Rat(a.n * b.d, a.d * b.n)
FAbs(a)   == IF IsNaN(a) THEN NaN ELSE [n |-> Abs(a.n), d |-> a.d]

Lt(a, b) == ~IsNaN(a) /\ ~IsNaN(b) /\ a.n * b.d < b.n * a.d
Le(a, b) == ~IsNaN(a) /\ ~IsNaN(b) /\ a.n * b.d <= b.n * a.d

\* Python's builtin min(a, b) and max(a, b): the first argument is kept
\* unless the second compares strictly smaller (larger)
PyMin(a, b) == IF Lt(b, a) THEN b ELSE a
PyMax(a, b) == IF Lt(a, b) THEN b ELSE a

\* np.clip(v, lo, hi) == minimum(maximum(v, lo), hi); numpy propagates NaN
NpClip(v, lo, hi) ==
    IF IsNaN(v) THEN NaN
    ELSE IF Lt(v, lo) THEN lo ELSE IF Lt(hi, v) THEN hi ELSE v

(* ------------------------- compute_risk_score -------------------------- *)

\* fault: the magnitude of r2 is clamped, so a negative r2 counts as a fit
r2_part_magnitude(r) == PyMax(Num(0), PyMin(Num(1), FAbs(r)))

\* fault: r2 is clamped with np.clip, which propagates NaN
r2_part_npclip(r) == NpClip(r, Num(0), Num(1))

r2_part_of(r) == PyMax(Num(0), PyMin(Num(1), r))

\* fault: the abs() is dropped from the distance to 2
dw_part_noabs(w) ==
    LET dw_dist == Sub(Num(2), w)
    IN  PyMax(Num(0), PyMin(Num(1), Div(Sub(Num(2), dw_dist), Num(2))))

\* fault: the part grows with the distance from 2, as the prose intends
dw_part_far(w) ==
    LET dw_dist == FAbs(Sub(Num(2), w))
    IN  PyMax(Num(0), PyMin(Num(1), Div(dw_dist, Num(2))))

\* fault: only a Durbin-Watson value below 2 counts as a distance
dw_part_onesided(w) ==
    LET dw_dist == PyMax(Num(0), Sub(Num(2), w))
    IN  PyMax(Num(0), PyMin(Num(1), Div(Sub(Num(2), dw_dist), Num(2))))

dw_part_of(w) ==
    LET dw_dist == FAbs(Sub(Num(2), w))
    IN  PyMax(Num(0), PyMin(Num(1), Div(Sub(Num(2), dw_dist), Num(2))))

\* fault: the isnan guard is gone and p is clamped with np.clip, which
\* propagates NaN where Python's min/max do not
p_part_npclip(p) ==
    LET pval_clipped == NpClip(p, Num(0), Num(1))
    IN  Sub(Num(1), NpClip(Div(pval_clipped, Rat(2, 10)), Num(0), Num(1)))

\* fault: the "1.0 -" is dropped, so large p-values raise the part
p_part_direct(p) ==
    IF IsNaN(p) THEN Rat(1, 2)
    ELSE LET pval_clipped == PyMax(Num(0), PyMin(Num(1), p))
         IN  PyMin(Num(1), Div(pval_clipped, Rat(2, 10)))

\* fault: the isnan guard is gone; Python's min(1.0, nan) then gives 1.0
p_part_noguard(p) ==
    LET pval_clipped == PyMax(Num(0), PyMin(Num(1), p))
    IN  Sub(Num(1), PyMin(Num(1), Div(pval_clipped, Rat(2, 10))))

p_part_of(p) ==
    IF IsNaN(p) THEN Rat(1, 2)
    ELSE LET pval_clipped == PyMax(Num(0), PyMin(Num(1), p))
         IN  Sub(Num(1), PyMin(Num(1), Div(pval_clipped, Rat(2, 10))))

compute_risk_score(r, w, p) ==
    LET raw == Mul(Num(100),
                   Add(Add(Mul(Rat(4, 10), r2_part_of(r)),
                           Mul(Rat(3, 10), dw_part_of(w))),
                       Mul(Rat(3, 10), p_part_of(p))))
    IN  NpClip(raw, Num(0), Num(100))

(* ------------------------- uploaded CSV files -------------------------- *)

\* the longest column of an uploaded file, and the largest cell value
MaxRows == 3
MaxVal == 1

\* a cell of a numeric column: a whole number or a missing value (NaN)
Cells == {Num(k) : k \in 0 .. MaxVal} \cup {NaN}

RECURSIVE SeqsUpTo(_, _)
SeqsUpTo(S, k) ==
    IF k = 0 THEN {<<>>}
    ELSE LET shorter == SeqsUpTo(S, k - 1)
         IN  shorter \cup {Append(c, v) : c \in {q \in shorter : Len(q) = k - 1}, v \in S}

Columns == SeqsUpTo(Cells, MaxRows)

\* file_uploader returns None until a file is chosen; a file is the list of
\* its numeric columns as pd.read_csv and select_dtypes see them
NoFile == [uploaded |-> FALSE, num_cols |-> <<>>]
Uploads ==
    {NoFile} \cup {[uploaded |-> TRUE, num_cols |-> <<>>]}
             \cup {[uploaded |-> TRUE, num_cols |-> <<c>>] : c \in Columns}

\* df[col].dropna().astype(float).reset_index(drop=True)
dropna(col) ==
    LET kept == SelectSeq(col, LAMBDA c : ~IsNaN(c))
    IN  [i \in 1 .. Len(kept) |-> kept[i].n]

(* ------------------------- generate_demo_data -------------------------- *)

\* the demo series are two fixed, equal-length, upward-drifting walks; the
\* model keeps DemoRows points of each, with a fixed step pattern in place
\* of the seeded normal noise
DemoRows == 4

RECURSIVE Sum(_)
Sum(s) == IF s = <<>> THEN 0 ELSE s[1] + Sum(Tail(s))

\* np.cumsum(steps)
cumsum(steps) == [t \in 1 .. Len(steps) |-> Sum(SubSeq(steps, 1, t))]

\* the drift plus noise of each walk, 0.5 + eps_y and 0.4 + eps_x
DemoStepY(t) == IF t % 2 = 1 THEN 1 ELSE 0
DemoStepX(t) == IF t % 3 = 1 THEN 1 ELSE 0

generate_demo_data(n) ==
    LET walk_y == cumsum([t \in 1 .. n |-> DemoStepY(t)])
        walk_x == cumsum([t \in 1 .. n |-> DemoStepX(t)])
    IN  [df_y |-> [t \in 1 .. n |-> walk_y[t] + 10],
         df_x |-> [t \in 1 .. n |-> walk_x[t] + 5]]

(* ------------------------- compute_ols_metrics ------------------------- *)

\* no model has been fitted in this run
NoModel == [fitted |-> FALSE]

Dot(s, t) == Sum([i \in 1 .. Len(s) |-> s[i] * t[i]])

\* statsmodels add_constant(x) with has_constant='skip': a column that is
\* already a non-zero constant counts as the intercept and none is added
IsNonzeroConst(xs) ==
    /\ Len(xs) > 0
    /\ \A i \in 1 .. Len(xs) : xs[i] = xs[1]
    /\ xs[1] # 0

add_constant(xs) == [has_const |-> ~IsNonzeroConst(xs), x |-> xs]

\* the exceptions that end a run; the code defines no exception class of
\* its own and catches none
NoNumericColumns == "ValueError: No numeric columns found"
ZeroSizeArray    == "ValueError: zero-size array to reduction operation"
NotAligned       == "ValueError: The indices for endog and exog are not aligned"

\* sm.OLS(y, x_const) refuses an empty design, and series whose indices
\* differ (after reset_index: whose lengths differ); "none" when it accepts
OLSRaises(ys, xs) ==
    IF Len(xs) = 0 THEN ZeroSizeArray
    ELSE IF Len(ys) # Len(xs) THEN NotAligned
    ELSE "none"

\* sm.OLS(y, x_const).fit(): the least-squares fit by pseudo-inverse, with
\* the default covariance type and no covariance keywords (cov_kwds would
\* hold <<maxlags>> for a HAC fit).  Residuals are kept as integers over
\* the common denominator resid_den.
OLSFit(ys, x_const) ==
    LET xs  == x_const.x
        n   == Len(xs)
        sx  == Sum(xs)
        sy  == Sum(ys)
        sxx == n * Dot(xs, xs) - sx * sx
        sxy == n * Dot(xs, ys) - sx * sy
        \* the design has full column rank
        full == x_const.has_const /\ sxx # 0
        rank == IF full THEN 2 ELSE 1
        den  == IF full THEN n * sxx ELSE n
        res  == IF full
                THEN [i \in 1 .. n |-> den * ys[i] - (sy * sxx - sxy * sx) - n * sxy * xs[i]]
                ELSE [i \in 1 .. n |-> n * ys[i] - sy]
        slope == IF full THEN Rat(sxy, sxx)
                 ELSE IF x_const.has_const THEN Num(0)
                 ELSE Rat(Dot(xs, ys), Dot(xs, xs))
        \* the slope's diagonal entry of pinv(X'X)
        ncp  == IF full THEN Rat(n, sxx)
                ELSE IF x_const.has_const THEN Num(0)
                ELSE Rat(1, Dot(xs, xs))
    IN  [fitted       |-> TRUE,
         nobs         |-> n,
         endog        |-> ys,
         exog         |-> x_const,
         cov_type     |-> "nonrobust",
         cov_kwds     |-> <<>>,
         slope        |-> slope,
         resid        |-> res,
         resid_den    |-> den,
         ssr          |-> Rat(Dot(res, res), den * den),
         centered_tss |-> Rat(n * Dot(ys, ys) - sy * sy, n),
         df_resid     |-> n - rank,
         ncp_slope    |-> ncp]

\* fault: the denominator starts at t = 2 like the numerator
durbin_watson_from2(m) ==
    LET e == m.resid
        diff == [i \in 1 .. Len(e) - 1 |-> e[i + 1] - e[i]]
        rest == SubSeq(e, 2, Len(e))
    IN  Rat(Dot(diff, diff), Dot(rest, rest))

\* sm.stats.stattools.durbin_watson(resid): sum(diff(e)^2) / sum(e^2), a
\* float division that gives NaN for 0/0
durbin_watson(m) ==
    LET e == m.resid
        diff == [i \in 1 .. Len(e) - 1 |-> e[i + 1] - e[i]]
    IN  Rat(Dot(diff, diff), Dot(e, e))

\* model.rsquared == 1 - ssr / centered_tss
rsquared(m) == Sub(Num(1), Div(m.ssr, m.centered_tss))

\* The Student-t tail probability has no exact rational value: a slope with
\* a finite non-zero t statistic gets any of these p-values strictly
\* inside (0,1), one on each side of the 0.2 threshold of the score.
PInterior == {Rat(1, Den), Rat(Den - 1, Den)}

\* model.pvalues[slope]: the set of values the two-sided t test can give.
\* scale = ssr / df_resid, bse = sqrt(scale * ncp), t = slope / bse.
SlopePvalues(m) ==
    IF m.df_resid = 0 THEN {NaN}                        \* scale is 0/0
    ELSE IF m.ssr = Num(0) \/ m.ncp_slope = Num(0)     \* bse is 0
         THEN IF m.slope = Num(0) THEN {NaN} ELSE {Num(0)}
    ELSE IF m.slope = Num(0) THEN {Num(1)}
    ELSE PInterior

(* ------------------------------- main ---------------------------------- *)

\* nothing is on disk, cached or being called outside main
Idle == disk = <<>> /\ cache = <<>> /\ args = <<>> /\ ret = <<>>

\* the first run of the script: the checkbox has its default value=False
\* and neither uploader holds a file
Init ==
    /\ pc = "source"
    /\ use_demo = FALSE
    /\ file_y = NoFile
    /\ file_x = NoFile
    /\ y = <<>> /\ x = <<>>
    /\ model = NoModel
    /\ dw = NaN /\ r2 = NaN /\ pval = NaN /\ score = NaN
    /\ error = "none"
    /\ shown = <<>>
    /\ Idle

\* use_demo is ticked: the demo frames are generated and their columns used
UseDemo ==
    /\ pc = "source"
    /\ use_demo
    /\ LET demo == generate_demo_data(DemoRows)
       IN  y' = demo.df_y /\ x' = demo.df_x
    /\ pc' = "diagnostics"
    /\ shown' = shown \o <<"Demo data", "df_y.head", "df_x.head">>
    /\ UNCHANGED <<use_demo, file_y, file_x, model, dw, r2, pval, score, error>>
    /\ UNCHANGED others

\* fault: the test is "file_y is None and file_x is None"
missing_upload_both == ~file_y.uploaded /\ ~file_x.uploaded

\* file_y is None or file_x is None
missing_upload == ~file_y.uploaded \/ ~file_x.uploaded

\* an upload is missing: warning and return
WarnMissingUpload ==
    /\ pc = "source"
    /\ ~use_demo
    /\ missing_upload
    /\ pc' = "warned"
    /\ shown' = Append(shown, "warning: Please upload both CSV files or enable demo mode.")
    /\ UNCHANGED <<use_demo, file_y, file_x, y, x, model, dw, r2, pval, score, error>>
    /\ UNCHANGED others

\* y, y_label = load_series(file_y, "Y")
LoadSeriesY ==
    /\ pc = "source"
    /\ ~use_demo
    /\ ~missing_upload
    /\ IF file_y.num_cols = <<>>
       THEN /\ error' = NoNumericColumns /\ pc' = "raised" /\ y' = y
       ELSE \E col \in 1 .. Len(file_y.num_cols) :
                /\ y' = dropna(file_y.num_cols[col])
                /\ pc' = "load_x"
                /\ error' = error
    /\ UNCHANGED <<use_demo, file_y, file_x, x, model, dw, r2, pval, score, shown>>
    /\ UNCHANGED others

\* x, x_label = load_series(file_x, "X")
LoadSeriesX ==
    /\ pc = "load_x"
    /\ IF file_x.num_cols = <<>>
       THEN /\ error' = NoNumericColumns /\ pc' = "raised" /\ x' = x
       ELSE \E col \in 1 .. Len(file_x.num_cols) :
                /\ x' = dropna(file_x.num_cols[col])
                /\ pc' = "diagnostics"
                /\ error' = error
    /\ UNCHANGED <<use_demo, file_y, file_x, y, model, dw, r2, pval, score, shown>>
    /\ UNCHANGED others

\* model, dw, r2, pval = compute_ols_metrics(y, x)
ComputeOlsMetrics ==
    /\ pc = "diagnostics"
    /\ IF OLSRaises(y, x) # "none"
       THEN /\ error' = OLSRaises(y, x) /\ pc' = "raised"
            /\ UNCHANGED <<model, dw, r2, pval>>
       ELSE LET m == OLSFit(y, add_constant(x))
            IN  /\ model' = m
                /\ dw' = durbin_watson(m)
                /\ r2' = rsquared(m)
                /\ pval' \in SlopePvalues(m)
                /\ pc' = "metrics"
                /\ error' = error
    /\ UNCHANGED <<use_demo, file_y, file_x, y, x, score, shown>>
    /\ UNCHANGED others

\* the diagnostics are written out and the risk score is computed and shown
ShowRiskScore ==
    /\ pc = "metrics"
    /\ score' = compute_risk_score(r2, dw, pval)
    /\ pc' = "scored"
    /\ shown' = shown \o <<"OLS summary", "R2", "Durbin-Watson",
                            "Newey-West p-value (slope)",
                            "Spurious Regression Risk Score", "Y series", "X series">>
    /\ UNCHANGED <<use_demo, file_y, file_x, y, x, model, dw, r2, pval, error>>
    /\ UNCHANGED others

\* A run of the script has ended (shown the score, returned after the
\* warning, or stopped on an exception).
RunEnded == pc \in {"scored", "warned", "raised"}

\* Streamlit runs main again from the top when a widget changes; the locals
\* of the previous run are gone
RunAgain ==
    /\ pc' = "source"
    /\ y' = <<>> /\ x' = <<>>
    /\ model' = NoModel
    /\ dw' = NaN /\ r2' = NaN /\ pval' = NaN /\ score' = NaN
    /\ error' = "none"
    /\ shown' = <<>>
    /\ UNCHANGED others

\* the user flips the demo checkbox; in demo mode the uploaders are not
\* drawn, so their files are dropped
ToggleUseDemo ==
    /\ RunEnded
    /\ use_demo' = ~use_demo
    /\ file_y' = NoFile /\ file_x' = NoFile
    /\ RunAgain

\* the user puts a file into (or clears) the Y uploader
UploadFileY ==
    /\ RunEnded
    /\ ~use_demo
    /\ file_y' \in Uploads \ {file_y}
    /\ UNCHANGED <<use_demo, file_x>>
    /\ RunAgain

\* the user puts a file into (or clears) the X uploader
UploadFileX ==
    /\ RunEnded
    /\ ~use_demo
    /\ file_x' \in Uploads \ {file_x}
    /\ UNCHANGED <<use_demo, file_y>>
    /\ RunAgain

Next ==
    \/ UseDemo
    \/ WarnMissingUpload
    \/ LoadSeriesY
    \/ LoadSeriesX
    \/ ComputeOlsMetrics
    \/ ShowRiskScore
    \/ ToggleUseDemo
    \/ UploadFileY
    \/ UploadFileX

Spec == Init /\ [][Next]_vars

(* --------------------- score harness: SpecScore ----------------------- *)

R2Grid == {Rat(k, Den) : k \in -Over .. Den + Over} \cup {NaN}
DwGrid == {Rat(k, Den) : k \in -Over .. 4 * Den + Over} \cup {NaN}
PGrid  == {Rat(k, Den) : k \in -Over .. Den + Over} \cup {NaN}

InitScore ==
    /\ pc = "score_call"
    /\ r2 \in R2Grid
    /\ dw \in DwGrid
    /\ pval \in PGrid
    /\ score = NaN
    /\ use_demo = FALSE
    /\ file_y = NoFile /\ file_x = NoFile
    /\ y = <<>> /\ x = <<>>
    /\ model = NoModel
    /\ error = "none"
    /\ shown = <<>>
    /\ Idle

\* one call compute_risk_score(r2, dw, pval)
ScoreCall ==
    /\ pc = "score_call"
    /\ score' = compute_risk_score(r2, dw, pval)
    /\ pc' = "score_ret"
    /\ UNCHANGED <<use_demo, file_y, file_x, y, x, model, dw, r2, pval, error, shown>>
    /\ UNCHANGED others

NextScore == ScoreCall

SpecScore == InitScore /\ [][NextScore]_vars

(* ------------------- Durbin-Watson harness: SpecDW --------------------- *)

\* the residuals drawn for a call: whole numbers of magnitude up to MaxRes,
\* at most MaxResLen of them
MaxRes == 2
MaxResLen == 4

Residuals == SeqsUpTo(-MaxRes .. MaxRes, MaxResLen)

\* main of src/app.py has not run
MainAtRest ==
    /\ use_demo = FALSE
    /\ file_y = NoFile /\ file_x = NoFile
    /\ y = <<>> /\ x = <<>>
    /\ model = NoModel
    /\ dw = NaN /\ r2 = NaN /\ pval = NaN /\ score = NaN
    /\ error = "none"
    /\ shown = <<>>

mainVars == <<use_demo, file_y, file_x, y, x, model, dw, r2, pval, score, error, shown>>

InitDW ==
    /\ pc = "dw_call"
    /\ MainAtRest
    /\ args \in {[resid |-> e] : e \in Residuals}
    /\ ret = <<>>
    /\ disk = <<>> /\ cache = <<>>

\* one call durbin_watson(resid)
DWCall ==
    /\ pc = "dw_call"
    /\ ret' = durbin_watson(args)
    /\ pc' = "dw_ret"
    /\ UNCHANGED <<mainVars, disk, cache, args>>

NextDW == DWCall

SpecDW == InitDW /\ [][NextDW]_vars

(* ------- load_panel of apps/streamlit_country_snapshot_tool.py --------- *)

\* A column header is its lower-case spelling and whether the file spells
\* it in upper case: H("iso3") is the header iso3, U("iso3") is ISO3.
H(name) == [lower |-> name, caps |-> FALSE]
U(name) == [lower |-> name, caps |-> TRUE]

\* no column (None)
NoCol == [lower |-> "", caps |-> FALSE]

\* the largest and the smallest member of a non-empty set of integers
MaxOf(S) == CHOOSE i \in S : \A j \in S : j <= i
MinOf(S) == CHOOSE i \in S : \A j \in S : i <= j

\* cand in colmap, for colmap = {c.lower(): c for c in df.columns}
in_colmap(cols, cand) == \E i \in 1 .. Len(cols) : cols[i].lower = cand

\* colmap[cand]: of two headers that differ only in case the dict keeps the
\* later one
colmap(cols, cand) == cols[MaxOf({i \in 1 .. Len(cols) : cols[i].lower = cand})]

\* fault: the loop has no break, so the last alias present wins
last_alias(cols, cands) ==
    LET present == {j \in 1 .. Len(cands) : in_colmap(cols, cands[j])}
    IN  IF present = {} THEN NoCol ELSE colmap(cols, cands[MaxOf(present)])

\* for cand in cands: if cand in colmap: col = colmap[cand]; break
first_alias(cols, cands) ==
    LET present == {j \in 1 .. Len(cands) : in_colmap(cols, cands[j])}
    IN  IF present = {} THEN NoCol ELSE colmap(cols, cands[MinOf(present)])

IsoAliases    == <<"iso3", "country_iso3", "iso3c", "iso_code">>
Y0Aliases     == <<"y0", "start_year", "year0">>
Y1Aliases     == <<"y1", "end_year", "year1">>
GrowthAliases == <<"growth_10y", "g_10y", "g_10y_ann", "growth10", "growth_annual_10y", "g_10">>
PsiNgAliases  == <<"psi_ng", "psi_ng_std", "psi_ng_z">>
PsiAliases    == <<"psi", "psi_std", "psi_z">>
EciAliases    == <<"eci", "eci_std", "eci_z">>

\* the header names of the model that have "growth" inside
NamesWithGrowth ==
    {"growth_10y", "growth10", "growth_annual_10y", "gdp_growth", "growth_rate"}

\* fault: the substring fallback is missing
growth_fallback_none(cols) == NoCol

\* for c in df.columns: if "growth" in c.lower(): growth_col = c; break
growth_fallback(cols) ==
    LET hits == {i \in 1 .. Len(cols) : cols[i].lower \in NamesWithGrowth}
    IN  IF hits = {} THEN NoCol ELSE cols[MinOf(hits)]

\* load_panel on a file with the headers cols: the resolved columns, or the
\* column whose absence made it call st.stop()
load_panel(cols) ==
    LET iso    == first_alias(cols, IsoAliases)
        y0c    == first_alias(cols, Y0Aliases)
        y1c    == first_alias(cols, Y1Aliases)
        galias == first_alias(cols, GrowthAliases)
        growth == IF galias = NoCol THEN growth_fallback(cols) ELSE galias
        psing  == first_alias(cols, PsiNgAliases)
        psi    == IF psing = NoCol THEN first_alias(cols, PsiAliases) ELSE psing
        ealias == first_alias(cols, EciAliases)
        eci    == IF ealias = NoCol /\ \E i \in 1 .. Len(cols) : cols[i] = U("eci")
                  THEN U("eci") ELSE ealias
        stop   == IF iso = NoCol THEN "ISO3"
                  ELSE IF y0c = NoCol \/ y1c = NoCol THEN "y0/y1"
                  ELSE IF growth = NoCol THEN "growth"
                  ELSE IF psi = NoCol THEN "psi"
                  ELSE IF eci = NoCol THEN "ECI"
                  ELSE ""
    IN  [stop       |-> stop,
         iso_col    |-> iso,
         y0_col     |-> IF stop \in {"ISO3"} THEN NoCol ELSE y0c,
         y1_col     |-> IF stop \in {"ISO3"} THEN NoCol ELSE y1c,
         growth_col |-> IF stop \in {"ISO3", "y0/y1"} THEN NoCol ELSE growth,
         psi_col    |-> IF stop \in {"ISO3", "y0/y1", "growth"} THEN NoCol ELSE psi,
         eci_col    |-> IF stop \in {"ISO3", "y0/y1", "growth", "psi"} THEN NoCol ELSE eci]

(* ---------------------- load_panel harness: SpecPanel ------------------ *)

\* the header groups a drawn file is put together from, one per column role
IsoHeaders    == {<<>>, <<H("iso3")>>, <<U("iso3")>>, <<H("iso3"), U("iso3")>>,
                  <<H("iso_code"), H("country_iso3")>>, <<H("iso3_old")>>}
Y0Headers     == {<<>>, <<H("y0")>>, <<H("year0"), U("start_year")>>}
Y1Headers     == {<<>>, <<H("y1")>>, <<U("end_year")>>}
GrowthHeaders == {<<>>, <<H("growth_10y")>>, <<H("g_10"), H("g_10y")>>,
                  <<H("gdp_growth")>>, <<U("growth_rate"), H("gdp_growth")>>,
                  <<H("gdp_growth"), H("g_10")>>}
PsiHeaders    == {<<>>, <<H("psi")>>, <<H("psi_z"), H("psi"), H("psi_ng")>>, <<H("psi_raw")>>}
EciHeaders    == {<<>>, <<U("eci")>>, <<H("eci_z"), H("eci")>>, <<H("eci_rank")>>}

PanelFiles ==
    {i \o a \o b \o g \o p \o e :
        i \in IsoHeaders, a \in Y0Headers, b \in Y1Headers,
        g \in GrowthHeaders, p \in PsiHeaders, e \in EciHeaders}

InitPanel ==
    /\ pc = "panel_call"
    /\ MainAtRest
    /\ args \in PanelFiles
    /\ ret = <<>>
    /\ disk = <<>> /\ cache = <<>>

\* one uncached call of load_panel on the drawn file
PanelCall ==
    /\ pc = "panel_call"
    /\ ret' = load_panel(args)
    /\ pc' = "panel_ret"
    /\ UNCHANGED <<mainVars, disk, cache, args>>

NextPanel == PanelCall

SpecPanel == InitPanel /\ [][NextPanel]_vars

(* ------------- the @st.cache_data loaders: SpecCache ------------------- *)

\* load_data of apps/streamlit_psi_eci_global_explorer.py: the table as
\* pd.read_csv gives it
load_data(cols) == cols

\* a cell of the country column: the text of the cell and whether pandas
\* read it as a number
Cell(text, numeric) == [text |-> text, numeric |-> numeric]

\* load_countries of ccm-v1.0/app/app.py: df["country"].astype(str)
load_countries(rows) == [i \in 1 .. Len(rows) |-> Cell(rows[i].text, FALSE)]

\* the contents the panel file and the country file can have on disk
PanelVersions ==
    {<<H("iso3"), H("y0"), H("y1"), H("growth_10y"), H("psi"), H("eci")>>,
     <<U("iso3"), H("y0"), H("y1"), H("gdp_growth"), H("psi_ng"), U("eci")>>,
     <<H("y0"), H("y1"), H("growth_10y"), H("psi"), H("eci")>>}
CountryVersions ==
    {<<Cell("Ukraine", FALSE)>>,
     <<Cell("Ukraine", FALSE), Cell("Poland", FALSE)>>,
     <<Cell("1", TRUE)>>}

NoEntry == <<>>

InitCache ==
    /\ pc = "cache_idle"
    /\ MainAtRest
    /\ disk \in [panel : PanelVersions, countries : CountryVersions]
    /\ cache = [load_panel |-> NoEntry, load_data |-> NoEntry, load_countries |-> NoEntry]
    /\ args = ""
    /\ ret = <<>>

\* the panel file is rewritten on disk with another content
ModifyPanelFile ==
    /\ \E v \in PanelVersions \ {disk.panel} : disk' = [disk EXCEPT !.panel = v]
    /\ pc' = "modified"
    /\ UNCHANGED <<mainVars, cache, args, ret>>

\* sample_countries.csv is rewritten on disk with another content
ModifyCountriesFile ==
    /\ \E v \in CountryVersions \ {disk.countries} : disk' = [disk EXCEPT !.countries = v]
    /\ pc' = "modified"
    /\ UNCHANGED <<mainVars, cache, args, ret>>

\* df = load_panel() under @st.cache_data: the entry is looked up by the
\* function and its (empty) argument list; a call ended by st.stop()
\* stores nothing
LoadPanelCached ==
    /\ args' = "load_panel"
    /\ pc' = "loaded"
    /\ IF Len(cache.load_panel) > 0
       THEN /\ ret' = cache.load_panel[1]
            /\ UNCHANGED cache
       ELSE /\ ret' = load_panel(disk.panel)
            /\ cache' = IF ret'.stop = "" THEN [cache EXCEPT !.load_panel = <<ret'>>]
                        ELSE cache
    /\ UNCHANGED <<mainVars, disk>>

\* df = load_data() under @st.cache_data
LoadDataCached ==
    /\ args' = "load_data"
    /\ pc' = "loaded"
    /\ IF Len(cache.load_data) > 0
       THEN /\ ret' = cache.load_data[1]
            /\ UNCHANGED cache
       ELSE /\ ret' = load_data(disk.panel)
            /\ cache' = [cache EXCEPT !.load_data = <<ret'>>]
    /\ UNCHANGED <<mainVars, disk>>

\* df = load_countries(csv_path) under @st.cache_data: csv_path is the same
\* path at every call, so the entry is the same at every call
LoadCountriesCached ==
    /\ args' = "load_countries"
    /\ pc' = "loaded"
    /\ IF Len(cache.load_countries) > 0
       THEN /\ ret' = cache.load_countries[1]
            /\ UNCHANGED cache
       ELSE /\ ret' = load_countries(disk.countries)
            /\ cache' = [cache EXCEPT !.load_countries = <<ret'>>]
    /\ UNCHANGED <<mainVars, disk>>

NextCache ==
    \/ ModifyPanelFile
    \/ ModifyCountriesFile
    \/ LoadPanelCached
    \/ LoadDataCached
    \/ LoadCountriesCached

SpecCache == InitCache /\ [][NextCache]_vars

(* ------------- run_scenario of ccm-v1.0/app/ccm_calculator.py ---------- *)

\* Python's None, for the optional baselines and results
None == [none |-> TRUE]

\* the values the app's sliders give beta and delta_c that the model draws
BetaGrid  == {Rat(1, 2), Rat(69, 100), Rat(9, 10)}
DeltaGrid == {Num(0), Rat(1, 2), Num(1), Rat(6, 5), Rat(3, 2)}

\* math.exp on the products of the two grids, to two decimals
math_exp(z) ==
    CASE z = Num(0)         -> Num(1)
      [] z = Rat(1, 4)      -> Rat(128, 100)
      [] z = Rat(69, 200)   -> Rat(141, 100)
      [] z = Rat(9, 20)     -> Rat(157, 100)
      [] z = Rat(1, 2)      -> Rat(165, 100)
      [] z = Rat(69, 100)   -> Rat(199, 100)
      [] z = Rat(3, 4)      -> Rat(212, 100)
      [] z = Rat(9, 10)     -> Rat(246, 100)
      [] z = Rat(207, 200)  -> Rat(282, 100)
      [] z = Rat(27, 20)    -> Rat(386, 100)
      [] z = Rat(3, 5)      -> Rat(182, 100)
      [] z = Rat(207, 250)  -> Rat(229, 100)
      [] z = Rat(27, 25)    -> Rat(294, 100)

innovation_multiplier(beta, delta_c) == math_exp(Mul(beta, delta_c))

\* fault: exports_2040 is guarded by the patents baseline
run_scenario_coupled(country, c_quality_2024, delta_c, beta, patents_2024, exports_2024) ==
    LET m == innovation_multiplier(beta, delta_c)
    IN  [country        |-> country,
         c_quality_2024 |-> c_quality_2024,
         delta_c        |-> delta_c,
         beta           |-> beta,
         multiplier     |-> m,
         patents_2024   |-> patents_2024,
         patents_2040   |-> IF patents_2024 # None THEN Mul(patents_2024, m) ELSE None,
         exports_2024   |-> exports_2024,
         exports_2040   |-> IF patents_2024 # None /\ exports_2024 # None
                            THEN Mul(exports_2024, m) ELSE None]

\* the ScenarioResult that run_scenario returns
run_scenario(country, c_quality_2024, delta_c, beta, patents_2024, exports_2024) ==
    LET m == innovation_multiplier(beta, delta_c)
    IN  [country        |-> country,
         c_quality_2024 |-> c_quality_2024,
         delta_c        |-> delta_c,
         beta           |-> beta,
         multiplier     |-> m,
         patents_2024   |-> patents_2024,
         patents_2040   |-> IF patents_2024 # None THEN Mul(patents_2024, m) ELSE None,
         exports_2024   |-> exports_2024,
         exports_2040   |-> IF exports_2024 # None THEN Mul(exports_2024, m) ELSE None]

(* --------------------- run_scenario harness: SpecScenario -------------- *)

\* the optional baselines the model draws
Baselines == {None, Num(0), Rat(5, 2), Num(100)}

InitScenario ==
    /\ pc = "scenario_call"
    /\ MainAtRest
    /\ args \in [country        : {"Ukraine", "Poland"},
                 c_quality_2024 : {Rat(-1, 2), Num(1)},
                 delta_c        : DeltaGrid,
                 beta           : BetaGrid,
                 patents_2024   : Baselines,
                 exports_2024   : Baselines]
    /\ ret = <<>>
    /\ disk = <<>> /\ cache = <<>>

\* one call of run_scenario on the drawn arguments
ScenarioCall ==
    /\ pc = "scenario_call"
    /\ ret' = run_scenario(args.country, args.c_quality_2024, args.delta_c,
                           args.beta, args.patents_2024, args.exports_2024)
    /\ pc' = "scenario_ret"
    /\ UNCHANGED <<mainVars, disk, cache, args>>

NextScenario == ScenarioCall

SpecScenario == InitScenario /\ [][NextScenario]_vars

(* --------------------- main of ccm-v1.0/app/app.py: SpecCcm ----------- *)

BETA_DEFAULT == Rat(69, 100)

\* the slider's value=1.2 for delta_c
DELTA_C_DEFAULT == Rat(6, 5)

\* a row of sample_countries.csv
CountryRow(country, c_quality, baseline) ==
    [country                         |-> country,
     C_quality_2024_SD               |-> c_quality,
     baseline_hitech_exports_2024_bn |-> baseline]

\* the tables load_countries can return: one row per country
CcmTables ==
    {<<CountryRow("Ukraine", Rat(-1, 2), Rat(5, 2)),
       CountryRow("Poland", Num(0), Num(100))>>,
     <<CountryRow("Ukraine", Rat(-1, 2), Num(0)),
       CountryRow("Poland", Num(0), Num(10)),
       CountryRow("Korea", Num(1), Num(100))>>}

\* the values the model gives the number_input (min_value=0.0, step=10.0)
CustomGrid == {Num(0), Num(10), Num(100)}

\* row = df[df["country"] == country_name].iloc[0]
selected_row(df, country_name) ==
    df[MinOf({i \in 1 .. Len(df) : df[i].country = country_name})]

\* fault: the table is built with BETA_DEFAULT, not with the slider's beta
comparison_table_default_beta(df, beta, delta_c) ==
    [i \in 1 .. Len(df) |->
        LET m == innovation_multiplier(BETA_DEFAULT, delta_c)
        IN  [Country              |-> df[i].country,
             C_quality_2024_SD    |-> df[i].C_quality_2024_SD,
             Delta_C_2024_2040_SD |-> delta_c,
             Multiplier           |-> m,
             Exports_2024_bn      |-> df[i].baseline_hitech_exports_2024_bn,
             Exports_2040_bn      |-> Mul(df[i].baseline_hitech_exports_2024_bn, m)]]

\* rows, built by the loop over df.iterrows()
comparison_table(df, beta, delta_c) ==
    [i \in 1 .. Len(df) |->
        LET m == innovation_multiplier(beta, delta_c)
        IN  [Country              |-> df[i].country,
             C_quality_2024_SD    |-> df[i].C_quality_2024_SD,
             Delta_C_2024_2040_SD |-> delta_c,
             Multiplier           |-> m,
             Exports_2024_bn      |-> df[i].baseline_hitech_exports_2024_bn,
             Exports_2040_bn      |-> Mul(df[i].baseline_hitech_exports_2024_bn, m)]]

\* the first page load: first country, default sliders, checkbox off
InitCcm ==
    /\ pc = "ccm_run"
    /\ MainAtRest
    /\ \E df \in CcmTables :
           args = [df                  |-> df,
                   country_name        |-> df[1].country,
                   beta                |-> BETA_DEFAULT,
                   delta_c             |-> DELTA_C_DEFAULT,
                   use_custom_baseline |-> FALSE,
                   baseline_exports    |-> None]
    /\ ret = <<>>
    /\ disk = <<>> /\ cache = <<>>

\* one run of main: the selected country's scenario and the table
CcmMain ==
    /\ pc = "ccm_run"
    /\ LET row == selected_row(args.df, args.country_name)
           baseline_exports ==
               IF args.use_custom_baseline THEN args.baseline_exports
               ELSE row.baseline_hitech_exports_2024_bn
       IN  ret' = [scenario |-> run_scenario(args.country_name, row.C_quality_2024_SD,
                                             args.delta_c, args.beta, None,
                                             baseline_exports),
                   df_out   |-> comparison_table(args.df, args.beta, args.delta_c)]
    /\ pc' = "ccm_shown"
    /\ UNCHANGED <<mainVars, disk, cache, args>>

\* a widget has changed: main runs again from the top
CcmRunAgain ==
    /\ pc = "ccm_shown"
    /\ pc' = "ccm_run"
    /\ ret' = <<>>
    /\ UNCHANGED <<mainVars, disk, cache>>

\* the user picks another country; the number_input, if drawn, starts again
\* from the new row's value
SelectCountry ==
    /\ CcmRunAgain
    /\ \E i \in 1 .. Len(args.df) :
           /\ args.df[i].country # args.country_name
           /\ args' = [args EXCEPT
                  !.country_name = args.df[i].country,
                  !.baseline_exports =
                      IF args.use_custom_baseline
                      THEN args.df[i].baseline_hitech_exports_2024_bn ELSE None]

\* the user moves the beta slider
SetBeta ==
    /\ CcmRunAgain
    /\ \E b \in BetaGrid \ {args.beta} : args' = [args EXCEPT !.beta = b]

\* the user moves the delta_c slider
SetDeltaC ==
    /\ CcmRunAgain
    /\ \E d \in DeltaGrid \ {args.delta_c} : args' = [args EXCEPT !.delta_c = d]

\* the user flips the custom-baseline checkbox; the number_input starts at
\* the selected row's value
ToggleCustomBaseline ==
    /\ CcmRunAgain
    /\ args' = [args EXCEPT
           !.use_custom_baseline = ~args.use_custom_baseline,
           !.baseline_exports =
               IF args.use_custom_baseline THEN None
               ELSE selected_row(args.df, args.country_name).baseline_hitech_exports_2024_bn]

\* the user types another baseline into the number_input
SetCustomBaseline ==
    /\ CcmRunAgain
    /\ args.use_custom_baseline
    /\ \E v \in CustomGrid \ {args.baseline_exports} :
           args' = [args EXCEPT !.baseline_exports = v]

NextCcm ==
    \/ CcmMain
    \/ SelectCountry
    \/ SetBeta
    \/ SetDeltaC
    \/ ToggleCustomBaseline
    \/ SetCustomBaseline

SpecCcm == InitCcm /\ [][NextCcm]_vars

(* ---------------- the documented formula of the score ------------------ *)

\* clamp(v, lo, hi) of a finite v
Clamp(v, lo, hi) == IF Lt(v, lo) THEN lo ELSE IF Lt(hi, v) THEN hi ELSE v

DocR2Part(r) == Clamp(r, Num(0), Num(1))
DocDwPart(w) == Clamp(Div(Sub(Num(2), FAbs(Sub(Num(2), w))), Num(2)), Num(0), Num(1))
DocPPart(p)  == Clamp(Sub(Num(1), Div(Clamp(p, Num(0), Num(1)), Rat(2, 10))), Num(0), Num(1))
DocScore(r, w, p) ==
    Clamp(Mul(Num(100), Add(Add(Mul(Rat(4, 10), DocR2Part(r)),
                                Mul(Rat(3, 10), DocDwPart(w))),
                            Mul(Rat(3, 10), DocPPart(p)))),
          Num(0), Num(100))

Returned == pc = "score_ret"

(* ------------------------------ claims -------------------------------- *)

\* C1: for every finite r_squared and durbin_watson of any sign or magnitude
\* and every slope p-value, finite or NaN, the returned score s is a number
\* with 0 <= s <= 100.
C1_ScoreInRange ==
    (Returned /\ ~IsNaN(r2) /\ ~IsNaN(dw))
        => (Le(Num(0), score) /\ Le(score, Num(100)))

\* a negative r_squared, a Durbin-Watson value above 4 and a NaN p-value
C1_Witness ==
    /\ Returned
    /\ Lt(r2, Num(0)) /\ Lt(Num(4), dw) /\ IsNaN(pval)
    /\ score = Num(15)

\* C2: for every finite r_squared, durbin_watson and p-value the score is
\* 100 * (0.4*r2_part + 0.3*dw_part + 0.3*p_part) clamped to [0,100], with
\* r2_part = clamp(r2,0,1), dw_part = clamp((2 - |2 - dw|)/2, 0, 1) and
\* p_part = clamp(1 - clamp(p,0,1)/0.2, 0, 1); p_part is 0 for every p >= 0.2.
C2_ScoreIsDocFormula ==
    (Returned /\ ~IsNaN(r2) /\ ~IsNaN(dw) /\ ~IsNaN(pval))
        => /\ score = DocScore(r2, dw, pval)
           /\ r2_part_of(r2) = DocR2Part(r2)
           /\ dw_part_of(dw) = DocDwPart(dw)
           /\ p_part_of(pval) = DocPPart(pval)
           /\ (Le(Rat(2, 10), pval) => p_part_of(pval) = Num(0))

\* a p-value strictly between 0 and 0.2, a Durbin-Watson value beyond 2 and
\* an r_squared inside (0,1): every part is strictly between 0 and 1
C2_Witness ==
    /\ Returned
    /\ Lt(Num(0), r2) /\ Lt(r2, Num(1))
    /\ Lt(Num(2), dw) /\ Lt(dw, Num(4))
    /\ Lt(Num(0), pval) /\ Lt(pval, Rat(2, 10))
    /\ score = DocScore(r2, dw, pval)
    /\ Lt(Num(0), score) /\ Lt(score, Num(100))

\* The run has gone through compute_ols_metrics, by returning or by raising.
PastFit == pc \in {"metrics", "scored"} \/ (pc = "raised" /\ error # NoNumericColumns)

Min(a, b) == IF a <= b THEN a ELSE b

\* C3: the p-value handed to compute_risk_score, and shown as the
\* Newey-West slope p-value, is the HAC/Newey-West robust slope p-value of
\* the fitted model, not the classical one, whenever the robust covariance
\* can be computed (a full-rank fit with residual degrees of freedom and a
\* non-zero residual sum of squares).
C3_PvalueIsNeweyWest ==
    (/\ pc \in {"metrics", "scored"}
     /\ model.exog.has_const /\ model.df_resid > 0
     /\ model.ncp_slope # Num(0) /\ model.ssr # Num(0))
        => model.cov_type = "HAC"

\* the series xs has at least two points and they are not all the same
HasVariance(xs) == Len(xs) >= 2 /\ \E i \in 1 .. Len(xs) : xs[i] # xs[1]

\* C4: before the fit the Y and X series are both truncated to
\* n = min(len(Y), len(X)) and paired by position, so series of any two
\* lengths are fitted on exactly n position-aligned pairs (stated for the
\* pairs that leave a regressor with variance after truncation).
C4_FitOnTruncatedPairs ==
    LET n == Min(Len(y), Len(x))
    IN  (PastFit /\ HasVariance(SubSeq(x, 1, n)))
            => /\ model.fitted
               /\ model.nobs = n
               /\ model.endog = SubSeq(y, 1, n)
               /\ model.exog.x = SubSeq(x, 1, n)

\* C5: the fit fails with a distinguishable InsufficientDataError, and
\* returns no model, whenever n < 2 or every value of x is the same (read
\* generously: any exception raised by the fit counts as that failure).
C5_InsufficientDataRaises ==
    (PastFit /\ Len(y) = Len(x) /\ ~HasVariance(x))
        => (pc = "raised" /\ ~model.fitted)

\* C6: when the residual sum of squares is exactly zero (a noise-free line
\* through at least two distinct x) the Durbin-Watson step raises
\* DegenerateResidualsError instead of returning NaN, so no Durbin-Watson
\* value reaches the risk score.
C6_ZeroResidualsRaise ==
    (model.fitted /\ HasVariance(model.exog.x) /\ model.ssr = Num(0))
        => (pc = "raised" /\ error = "DegenerateResidualsError" /\ IsNaN(score))

RECURSIVE RatSum(_)
RatSum(s) == IF s = <<>> THEN Num(0) ELSE Add(s[1], RatSum(Tail(s)))

\* sum over t = 2..n of (e_t - e_{t-1})^2, over sum over t = 1..n of e_t^2
DocDurbinWatson(e) ==
    LET sq(a) == Mul(a, a)
    IN  Div(RatSum([t \in 1 .. Len(e) - 1 |-> sq(Sub(Num(e[t + 1]), Num(e[t])))]),
            RatSum([t \in 1 .. Len(e) |-> sq(Num(e[t]))]))

\* C12: for every residual sequence with a non-zero sum of squares the
\* Durbin-Watson statistic is (sum over t=2..n of (e_t - e_{t-1})^2) divided
\* by (sum over t=1..n of e_t^2), and lies in [0, 4].
C12_DurbinWatsonFormulaAndRange ==
    (pc = "dw_ret" /\ \E t \in 1 .. Len(args.resid) : args.resid[t] # 0)
        => /\ ret = DocDurbinWatson(args.resid)
           /\ Le(Num(0), ret) /\ Le(ret, Num(4))

\* three or more residuals of alternating sign: the statistic is above 2
C12_Witness ==
    /\ pc = "dw_ret"
    /\ Len(args.resid) >= 3
    /\ args.resid[1] > 0 /\ args.resid[2] < 0 /\ args.resid[3] > 0
    /\ Lt(Num(2), ret) /\ Le(ret, Num(4))

Fitted == pc \in {"metrics", "scored"}

\* max(1, floor(0.75 * n^(1/3))): the floor is the largest k with
\* (4k/3)^3 <= n, that is 64 k^3 <= 27 n
HacLag(n) ==
    LET k == CHOOSE j \in 0 .. n :
                 /\ 64 * j * j * j <= 27 * n
                 /\ 64 * (j + 1) * (j + 1) * (j + 1) > 27 * n
    IN  IF k < 1 THEN 1 ELSE k

\* C13: the HAC truncation lag used for the robust slope p-value is
\* max(1, floor(0.75 * n^(1/3))) for every n >= 2: 3 for n = 64, 1 for
\* n = 8, never 0.
C13_HacLagRule ==
    /\ HacLag(64) = 3 /\ HacLag(8) = 1
    /\ (Fitted /\ model.nobs >= 2)
           => (model.cov_type = "HAC" /\ model.cov_kwds = <<HacLag(model.nobs)>>)

\* Cases in which the HAC sandwich covariance of m is singular: the fit
\* left no residual at all (the middle matrix is zero) or the design is
\* rank deficient.
HacSingular(m) == m.fitted /\ (m.ssr = Num(0) \/ m.ncp_slope = Num(0))

\* the run has put the item on the page
Shown(item) == \E i \in 1 .. Len(shown) : shown[i] = item

\* C14: when the HAC covariance is singular the robust p-value step does not
\* fail: it returns the classical slope p-value and records the fallback
\* (in the fitted model or on the page), so the caller still receives a
\* p-value and a risk score.
C14_SingularHacFallsBack ==
    (pc = "scored" /\ HasVariance(x) /\ HacSingular(model))
        => /\ error = "none"
           /\ ~IsNaN(score)
           /\ pval \in SlopePvalues(model)
           /\ (model.cov_type = "HAC fallback" \/ Shown("RobustCovarianceFallback"))

\* C15: on every path through main the regression fit is invoked only with
\* at least 10 paired observations: uploaded series that give n < 10 never
\* reach compute_ols_metrics.
C15_FitNeedsTenPairs ==
    /\ (pc = "diagnostics" /\ ~use_demo) => Min(Len(y), Len(x)) >= 10
    /\ (Fitted /\ ~use_demo) => model.nobs >= 10

\* the insufficient-data and degenerate-residuals conditions of a fit
Degenerate(m) == m.fitted /\ (~HasVariance(m.exog.x) \/ m.ssr = Num(0))

\* C16: when a computation hits an insufficient-data or degenerate-residuals
\* condition the caller receives either no diagnostics at all or a record
\* clearly marked as degraded; main never displays a risk score computed
\* from an undefined (NaN) r_squared or Durbin-Watson value as if it were a
\* normal result.
C16_NoUnmarkedDegradedScore ==
    /\ (pc = "scored" /\ Degenerate(model)) => Shown("degraded")
    /\ (Shown("Spurious Regression Risk Score") /\ (IsNaN(r2) \/ IsNaN(dw)))
           => Shown("degraded")

\* C17: after any sequence of loads and file modifications, a cached load
\* returns the table parsed from the current content of the file, never an
\* earlier parse.
C17_LoadReturnsCurrentContent ==
    /\ (pc = "loaded" /\ args = "load_panel") => ret = load_panel(disk.panel)
    /\ (pc = "loaded" /\ args = "load_data") => ret = load_data(disk.panel)
    /\ (pc = "loaded" /\ args = "load_countries") => ret = load_countries(disk.countries)

\* col is a header of the file that equals, in lower case, the first alias
\* of cands that some header of the file equals in lower case
ExactFirst(col, cols, cands) ==
    \E j \in 1 .. Len(cands) :
        /\ col.lower = cands[j]
        /\ \E i \in 1 .. Len(cols) : cols[i] = col
        /\ \A k \in 1 .. j - 1 : \A i \in 1 .. Len(cols) : cols[i].lower # cands[k]

\* no header of the file equals an alias of cands in lower case
NoAliasPresent(cols, cands) ==
    \A i \in 1 .. Len(cols) : \A j \in 1 .. Len(cands) : cols[i].lower # cands[j]

\* the first header of the file, in file order, with "growth" inside
FirstWithGrowth(col, cols) ==
    \E i \in 1 .. Len(cols) :
        /\ cols[i] = col
        /\ col.lower \in NamesWithGrowth
        /\ \A k \in 1 .. i - 1 : cols[k].lower \notin NamesWithGrowth

\* the columns other than growth are resolved by exact match, first alias first
ExactExceptGrowth(r, cols) ==
    /\ ExactFirst(r.iso_col, cols, IsoAliases)
    /\ ExactFirst(r.y0_col, cols, Y0Aliases)
    /\ ExactFirst(r.y1_col, cols, Y1Aliases)
    /\ ExactFirst(r.psi_col, cols, PsiNgAliases \o PsiAliases)
    /\ ExactFirst(r.eci_col, cols, EciAliases)

\* a column other than growth has no alias among the headers
MissingExceptGrowth(cols) ==
    \/ NoAliasPresent(cols, IsoAliases)
    \/ NoAliasPresent(cols, Y0Aliases)
    \/ NoAliasPresent(cols, Y1Aliases)
    \/ NoAliasPresent(cols, PsiNgAliases \o PsiAliases)
    \/ NoAliasPresent(cols, EciAliases)

\* C18 as stated: load_panel resolves every required column, growth
\* included, only by case-insensitive exact match against its alias list,
\* first alias first; a header that only contains an alias is never
\* selected, and a column with no alias among the headers stops the load.
C18_ExactMatchOnly ==
    pc = "panel_ret" =>
        /\ ret.stop = "" =>
            /\ ExactExceptGrowth(ret, args)
            /\ ExactFirst(ret.growth_col, args, GrowthAliases)
        /\ (MissingExceptGrowth(args) \/ NoAliasPresent(args, GrowthAliases))
               => ret.stop # ""

\* C18 amended: ISO3, start/end year, psi and ECI are resolved only by
\* case-insensitive exact match, first alias first; growth is resolved the
\* same way when one of its aliases is present, and otherwise is the first
\* header in file order that contains "growth"; the load stops exactly when
\* a column cannot be resolved this way.
C18_ExactMatchExceptGrowth ==
    pc = "panel_ret" =>
        /\ ret.stop = "" =>
            /\ ExactExceptGrowth(ret, args)
            /\ \/ ExactFirst(ret.growth_col, args, GrowthAliases)
               \/ /\ NoAliasPresent(args, GrowthAliases)
                  /\ FirstWithGrowth(ret.growth_col, args)
        /\ ret.stop # "" <=>
            \/ MissingExceptGrowth(args)
            \/ /\ NoAliasPresent(args, GrowthAliases)
               /\ \A i \in 1 .. Len(args) : args[i].lower \notin NamesWithGrowth

\* C18 witness: a load that resolves ISO3 from an upper-case header and
\* growth from a header that only contains "growth", with a second growth
\* alias-free header later in the file
C18_Witness ==
    /\ pc = "panel_ret"
    /\ ret.stop = ""
    /\ ret.iso_col = U("iso3")
    /\ ret.growth_col = U("growth_rate")
    /\ ret.psi_col = H("psi_ng")
    /\ \E i \in 1 .. Len(args) : args[i] = H("gdp_growth")

\* C19: in run_scenario, patents_2040 is None exactly when patents_2024 is
\* None and exports_2040 is None exactly when exports_2024 is None; a
\* present baseline yields baseline * multiplier; neither figure depends on
\* the other.
C19_OptionalFiguresIndependent ==
    pc = "scenario_ret" =>
        /\ ret.patents_2040 = None <=> args.patents_2024 = None
        /\ ret.exports_2040 = None <=> args.exports_2024 = None
        /\ args.patents_2024 # None =>
               ret.patents_2040 = Mul(args.patents_2024, ret.multiplier)
        /\ args.exports_2024 # None =>
               ret.exports_2040 = Mul(args.exports_2024, ret.multiplier)
        /\ ret.multiplier = math_exp(Mul(args.beta, args.delta_c))

\* C19 witness: a scenario with no patents baseline and an exports baseline
\* that the multiplier raises
C19_Witness ==
    /\ pc = "scenario_ret"
    /\ args.patents_2024 = None
    /\ ret.patents_2040 = None
    /\ args.exports_2024 = Num(100)
    /\ ret.exports_2040 = Num(199)

\* C20: in main, with demo mode off and an upload missing, the run ends
\* after the warning: no series is loaded, no regression is fitted and no
\* risk score is displayed; a fit happens only after both series are there.
C20_MissingUploadEndsRun ==
    /\ (~use_demo /\ (~file_y.uploaded \/ ~file_x.uploaded)) =>
           /\ pc \in {"source", "warned"}
           /\ y = <<>> /\ x = <<>>
           /\ ~model.fitted
           /\ IsNaN(score)
           /\ ~Shown("Spurious Regression Risk Score")
    /\ pc = "warned" =>
           shown = <<"warning: Please upload both CSV files or enable demo mode.">>
    /\ model.fitted =>
           /\ pc \in {"metrics", "scored"}
           /\ use_demo \/ (file_y.uploaded /\ file_x.uploaded)

\* C20 witness: the run has ended on the warning with a usable Y file
\* uploaded and no X file
C20_Witness ==
    /\ pc = "warned"
    /\ ~use_demo
    /\ file_y.uploaded /\ file_y.num_cols # <<>>
    /\ ~file_x.uploaded
    /\ y = <<>>

\* C7: compute_risk_score(1.0, 2.0, 0.0) is exactly 100.0; dw_part reaches
\* its maximum 1 at durbin_watson = 2; no input triple scores higher.
C7_PeakIsHundred ==
    Returned =>
        /\ (r2 = Num(1) /\ dw = Num(2) /\ pval = Num(0)) => score = Num(100)
        /\ dw_part_of(Num(2)) = Num(1)
        /\ Le(dw_part_of(dw), dw_part_of(Num(2)))
        /\ Le(score, compute_risk_score(Num(1), Num(2), Num(0)))

C7_Witness ==
    /\ Returned
    /\ r2 = Num(1) /\ dw = Num(2) /\ pval = Num(0)
    /\ score = Num(100)

\* C8: compute_risk_score(0.0, 0.0, 1.0) is exactly 0.0: dw_part is 0 at
\* durbin_watson = 0 and p_part is 0 at slope_p_value = 1.
C8_FloorIsZero ==
    (Returned /\ r2 = Num(0) /\ dw = Num(0) /\ pval = Num(1))
        => /\ score = Num(0)
           /\ dw_part_of(dw) = Num(0)
           /\ p_part_of(pval) = Num(0)

C8_Witness ==
    /\ Returned
    /\ r2 = Num(0) /\ dw = Num(0) /\ pval = Num(1)
    /\ score = Num(0)

\* C9: with a NaN p-value p_part is exactly 0.5 whatever r_squared and
\* durbin_watson are, so the score is 100 * (0.4*r2_part + 0.3*dw_part + 0.15).
C9_NaNPvalueNeutral ==
    (Returned /\ IsNaN(pval))
        => /\ p_part_of(pval) = Rat(1, 2)
           /\ score = Mul(Num(100),
                           Add(Add(Mul(Rat(4, 10), r2_part_of(r2)),
                                   Mul(Rat(3, 10), dw_part_of(dw))),
                               Rat(15, 100)))

\* NaN p-value with r_squared = 1 and durbin_watson = 2: 100*(0.4+0.3+0.15)
C9_Witness ==
    /\ Returned
    /\ IsNaN(pval) /\ r2 = Num(1) /\ dw = Num(2)
    /\ score = Num(85)

\* C10: with durbin_watson and the p-value held fixed, r1 <= r2 implies
\* compute_risk_score(r1, dw, p) <= compute_risk_score(r2, dw, p).
C10_MonotoneInR2 ==
    Returned =>
        \A r1 \in R2Grid :
            Le(r1, r2) => Le(compute_risk_score(r1, dw, pval), score)

\* an r_squared inside (0,1) whose score is strictly above that of a smaller
\* r_squared on the grid
C10_Witness ==
    /\ Returned
    /\ Lt(Num(0), r2) /\ Lt(r2, Num(1))
    /\ \E r1 \in R2Grid : Lt(r1, r2) /\ Lt(compute_risk_score(r1, dw, pval), score)

\* the part a NaN-tolerant reading gives: 1 for a NaN r_squared or
\* durbin_watson, 1/2 for a NaN p-value, the documented part otherwise
NaNR2Part(r) == IF IsNaN(r) THEN Num(1) ELSE DocR2Part(r)
NaNDwPart(w) == IF IsNaN(w) THEN Num(1) ELSE DocDwPart(w)
NaNPPart(p)  == IF IsNaN(p) THEN Rat(1, 2) ELSE DocPPart(p)

\* C21: when r_squared or durbin_watson is NaN, compute_risk_score returns
\* no NaN: the affected part is 1.0, its maximum, and the score is a number
\* in [0, 100], namely 100 * (0.4*r2_part + 0.3*dw_part + 0.3*p_part) with
\* that part at 1.
C21_NaNInputTakesMaxPart ==
    (Returned /\ (IsNaN(r2) \/ IsNaN(dw)))
        => /\ ~IsNaN(score)
           /\ Le(Num(0), score) /\ Le(score, Num(100))
           /\ IsNaN(r2) => r2_part_of(r2) = Num(1)
           /\ IsNaN(dw) => dw_part_of(dw) = Num(1)
           /\ score = Mul(Num(100),
                          Add(Add(Mul(Rat(4, 10), NaNR2Part(r2)),
                                  Mul(Rat(3, 10), NaNDwPart(dw))),
                              Mul(Rat(3, 10), NaNPPart(pval))))

\* C21 witness: NaN r_squared and NaN durbin_watson with a p-value of 0.2:
\* both NaN parts count in full, 100 * (0.4 + 0.3 + 0)
C21_Witness ==
    /\ Returned
    /\ IsNaN(r2) /\ IsNaN(dw) /\ pval = Rat(2, 10)
    /\ score = Num(70)

C23_TableMatchesScenario ==
    pc = "ccm_shown" =>
        /\ ret.scenario.multiplier = math_exp(Mul(args.beta, args.delta_c))
        /\ Len(ret.df_out) = Len(args.df)
        /\ \A i \in 1 .. Len(ret.df_out) :
               /\ ret.df_out[i].Multiplier = ret.scenario.multiplier
               /\ ret.df_out[i].Exports_2040_bn =
                      Mul(args.df[i].baseline_hitech_exports_2024_bn,
                          ret.scenario.multiplier)
        /\ ~args.use_custom_baseline =>
               \A i \in 1 .. Len(ret.df_out) :
                   ret.df_out[i].Country = ret.scenario.country
                       => ret.df_out[i].Exports_2040_bn = ret.scenario.exports_2040

\* C23 witness: the custom baseline is off, beta has been moved off its
\* default, and the third row is the selected country's: its 2040 exports
\* are the scenario's, above the baseline, and differ from the first row's
C23_Witness ==
    /\ pc = "ccm_shown"
    /\ ~args.use_custom_baseline
    /\ args.beta # BETA_DEFAULT
    /\ Len(ret.df_out) = 3
    /\ ret.df_out[3].Country = ret.scenario.country
    /\ ret.df_out[3].Exports_2040_bn = ret.scenario.exports_2040
    /\ Lt(Num(100), ret.scenario.exports_2040)
    /\ ret.df_out[1].Exports_2040_bn # ret.scenario.exports_2040
    /\ ret.df_out[1].Multiplier = ret.df_out[3].Multiplier

====
